---------------------------- MODULE Spec2Model ----------------------------
(***************************************************************************)
(* Model of sf::Text (src/SFML/Graphics/Text.cpp): the lazy geometry cache *)
(* behind m_geometryNeedUpdate / m_fontTextureId, the line-offset pass     *)
(* (updateLineOffsets), the position query (findCharacterPos) and the      *)
(* geometry builder (ensureGeometryUpdate, addGlyphQuad, addLine).         *)
(*                                                                         *)
(* Numbers.  The code computes in float.  Every float of the model is a    *)
(* fixed-point integer counting thousandths (1000 = 1.0f): coordinates are *)
(* thousandths of a pixel, spacing factors thousandths of a unit.  The     *)
(* font metrics and factors drawn below make every product and quotient    *)
(* of the code exact in this representation.                               *)
(*                                                                         *)
(* Code points are their Unicode numbers; a string is a sequence of them.  *)
(*                                                                         *)
(* Where a computed value is used many times, it is bound once:            *)
(* CHOOSE r \in {F(v) : v \in {e}} : TRUE is F(e), and \E v \in {e} : A(v)  *)
(* is A(e), with e evaluated a single time.                                *)
(***************************************************************************)
EXTENDS Integers, Sequences, FiniteSets, TLC

(***************************************************************************)
(* Bounds of the model                                                     *)
(***************************************************************************)
\* longest string handed to the constructor in LayoutSpec
MaxLayoutLen == 3
\* number of setter calls and atlas repacks in one run of Spec (the queries
\* getLocalBounds, draw and findCharacterPos are not counted)
MaxOps == 2
\* number of setter calls in one run of LayoutSpec
MaxLayoutOps == 1
\* number of atlas repacks in one run
MaxRepacks == 2
\* longest string handed to the constructor in PositionSpec
MaxPositionLen == 3
\* number of setter calls in one run of PositionSpec
MaxPositionOps == 2
\* longest string handed to the constructor in DecorationSpec
MaxDecorationLen == 3
\* number of setter calls in one run of DecorationSpec
MaxDecorationOps == 2

(***************************************************************************)
(* Fixed-point helpers (float arithmetic of the code)                      *)
(***************************************************************************)
Px(n) == 1000 * n

FMul(a, b) == (a * b) \div 1000

\* std::floor
Floor(v) == (v \div 1000) * 1000

\* std::ceil
Ceil(v) == -Floor(-v)

\* std::abs
Abs(v) == IF v < 0 THEN -v ELSE v

\* std::round: to the nearest integer, halfway cases away from zero
Round(v) == IF v >= 0 THEN ((v + 500) \div 1000) * 1000
                      ELSE -(((-v + 500) \div 1000) * 1000)

Min(a, b) == IF a < b THEN a ELSE b

Max(a, b) == IF a > b THEN a ELSE b

(***************************************************************************)
(* Code points and enumerations                                            *)
(***************************************************************************)
NoChar == 0
Tab == 9
Newline == 10
CarriageReturn == 13
Space == 32
LetterA == 65
LetterX == 120

\* sf::Text::Style bits
Regular == 0
Bold == 1
Italic == 2
Underlined == 4
StrikeThrough == 8

HasStyle(style, bit) == (style \div bit) % 2 = 1

Alignments == {"Left", "Center", "Right"}

Colors == {"White", "Black", "Red"}

\* sf::degrees(12).asRadians() = 0.20943951...
ItalicShearValue == 209

(***************************************************************************)
(* The font provider (sf::Font, an external collaborator).  Two fonts:     *)
(* font 1 is the monospace-like test font of the spec's scenario (glyph    *)
(* 'A' at size 20: advance 10, bounds (0,0,8,10)); font 2 has ascending    *)
(* glyphs (negative top), kerning and a visible glyph for '\r'.            *)
(***************************************************************************)
Fonts == {1, 2}

Sizes == {20, 10}

\* one tenth of the character size, in thousandths of a pixel
SizeUnit(size) == Px(size) \div 10

GlyphAdvance(font, ch, size, bold) ==
    LET u == SizeUnit(size)
        b == IF bold THEN Px(1) ELSE 0
    IN  CASE ch = Space          -> 3 * u
          [] ch = Tab            -> 3 * u
          [] ch = Newline        -> 0
          [] ch = CarriageReturn -> IF font = 1 THEN 0 ELSE 2 * u
          [] OTHER               -> (IF font = 1 THEN 5 * u ELSE 6 * u) + b

GlyphBounds(font, ch, size, bold, outlineThickness) ==
    LET u == SizeUnit(size)
        o == Abs(outlineThickness)
        base == IF ch = LetterX
                THEN [left |-> 0, top |-> -4 * u, width |-> 4 * u, height |-> 4 * u]
                ELSE IF font = 1
                THEN [left |-> 0, top |-> 0, width |-> 4 * u, height |-> 5 * u]
                ELSE [left |-> u, top |-> -7 * u, width |-> 5 * u, height |-> 7 * u]
    IN  [left   |-> base.left - o,
         top    |-> base.top - o,
         width  |-> base.width + 2 * o + (IF bold THEN Px(1) ELSE 0),
         height |-> base.height + 2 * o]

\* the glyph's rectangle in the atlas page whose cache id is textureId: a
\* repack moves the rectangles
GlyphTextureRect(font, ch, size, bold, outlineThickness, textureId) ==
    LET b == GlyphBounds(font, ch, size, bold, outlineThickness)
    IN  [left   |-> Px(16 * textureId) + (IF outlineThickness # 0 THEN Px(8) ELSE 0),
         top    |-> Px(ch % 16) + (IF bold THEN Px(32) ELSE 0),
         width  |-> b.width,
         height |-> b.height]

getGlyph(font, ch, size, bold, outlineThickness, textureId) ==
    [advance     |-> GlyphAdvance(font, ch, size, bold),
     bounds      |-> GlyphBounds(font, ch, size, bold, outlineThickness),
     textureRect |-> GlyphTextureRect(font, ch, size, bold, outlineThickness, textureId)]

getKerning(font, first, second, size, bold) ==
    IF first = NoChar \/ font = 1 THEN 0
    ELSE IF first = LetterA /\ second = LetterA THEN -(SizeUnit(size) \div 2)
    ELSE 0

getLineSpacing(font, size) == 12 * SizeUnit(size)

getUnderlinePosition(font, size) == SizeUnit(size)

getUnderlineThickness(font, size) == IF font = 1 THEN Px(1) ELSE 1500


(***************************************************************************)
(* Vertices, and the two emitters of the anonymous namespace               *)
(***************************************************************************)
Vertex(x, y, color, u, v) == [position |-> <<x, y>>, color |-> color, texCoords |-> <<u, v>>]

\* FloatRect()
ZeroRect == [left |-> 0, top |-> 0, width |-> 0, height |-> 0]

\* Add an underline or strikethrough line to the vertex array
addLine(vertices, lineLeft, lineRight, lineTop, color, offset, thickness, outlineThickness) ==
    LET top    == Floor(lineTop + offset - (thickness \div 2) + 500)
        bottom == top + Floor(thickness + 500)
    IN  vertices \o
        << Vertex(lineLeft - outlineThickness,  top - outlineThickness,    color, Px(1), Px(1)),
           Vertex(lineRight + outlineThickness, top - outlineThickness,    color, Px(1), Px(1)),
           Vertex(lineLeft - outlineThickness,  bottom + outlineThickness, color, Px(1), Px(1)),
           Vertex(lineLeft - outlineThickness,  bottom + outlineThickness, color, Px(1), Px(1)),
           Vertex(lineRight + outlineThickness, top - outlineThickness,    color, Px(1), Px(1)),
           Vertex(lineRight + outlineThickness, bottom + outlineThickness, color, Px(1), Px(1)) >>

\* addGlyphQuad with no padding
addGlyphQuadNoPadding(vertices, position, color, glyph, italicShear) ==
    LET left   == glyph.bounds.left
        top    == glyph.bounds.top
        right  == glyph.bounds.left + glyph.bounds.width
        bottom == glyph.bounds.top + glyph.bounds.height
        u1 == glyph.textureRect.left
        v1 == glyph.textureRect.top
        u2 == glyph.textureRect.left + glyph.textureRect.width
        v2 == glyph.textureRect.top + glyph.textureRect.height
        px == position[1]
        py == position[2]
    IN  vertices \o
        << Vertex(px + left - FMul(italicShear, top),     py + top,    color, u1, v1),
           Vertex(px + right - FMul(italicShear, top),    py + top,    color, u2, v1),
           Vertex(px + left - FMul(italicShear, bottom),  py + bottom, color, u1, v2),
           Vertex(px + left - FMul(italicShear, bottom),  py + bottom, color, u1, v2),
           Vertex(px + right - FMul(italicShear, top),    py + top,    color, u2, v1),
           Vertex(px + right - FMul(italicShear, bottom), py + bottom, color, u2, v2) >>

\* Add a glyph quad to the vertex array
addGlyphQuad(vertices, position, color, glyph, italicShear) ==
    LET padding == Px(1)
        left   == glyph.bounds.left - padding
        top    == glyph.bounds.top - padding
        right  == glyph.bounds.left + glyph.bounds.width + padding
        bottom == glyph.bounds.top + glyph.bounds.height + padding
        u1 == glyph.textureRect.left - padding
        v1 == glyph.textureRect.top - padding
        u2 == glyph.textureRect.left + glyph.textureRect.width + padding
        v2 == glyph.textureRect.top + glyph.textureRect.height + padding
        px == position[1]
        py == position[2]
    IN  vertices \o
        << Vertex(px + left - FMul(italicShear, top),     py + top,    color, u1, v1),
           Vertex(px + right - FMul(italicShear, top),    py + top,    color, u2, v1),
           Vertex(px + left - FMul(italicShear, bottom),  py + bottom, color, u1, v2),
           Vertex(px + left - FMul(italicShear, bottom),  py + bottom, color, u1, v2),
           Vertex(px + right - FMul(italicShear, top),    py + top,    color, u2, v1),
           Vertex(px + right - FMul(italicShear, bottom), py + bottom, color, u2, v2) >>

(***************************************************************************)
(* A Text object is a record t of its members; tex is the cache id of the  *)
(* texture m_font->getTexture(m_characterSize) at the time of the call.    *)
(***************************************************************************)
isBoldOf(t) == HasStyle(t.m_style, Bold)

\* Text::getSpacing
getSpacing(t, tex) ==
    LET base == getGlyph(t.m_font, Space, t.m_characterSize, isBoldOf(t), 0, tex).advance
        letterSpacing == FMul(base \div 3, t.m_letterSpacingFactor - 1000)
    IN  [whitespaceWidth |-> base + letterSpacing,
         letterSpacing   |-> letterSpacing,
         lineSpacing     |-> FMul(getLineSpacing(t.m_font, t.m_characterSize), t.m_lineSpacingFactor)]

(***************************************************************************)
(* Text::updateLineOffsets                                                 *)
(***************************************************************************)
\* the first loop (lines 587-615): acc = [x, prevChar, maxWidth, widths]
\* sp is the spacing of line 582
RECURSIVE LineWidthsLoop(_, _, _, _, _)
LineWidthsLoop(t, tex, sp, i, acc) ==
    IF i > Len(t.m_string) THEN acc
    ELSE
        LET curChar == t.m_string[i]
            x       == acc.x + getKerning(t.m_font, acc.prevChar, curChar, t.m_characterSize, isBoldOf(t))
            next    ==
                CASE curChar = Space ->
                        [acc EXCEPT !.x = x + sp.whitespaceWidth, !.prevChar = curChar]
                  [] curChar = Tab ->
                        [acc EXCEPT !.x = x + sp.whitespaceWidth * 4, !.prevChar = curChar]
                  [] curChar = Newline ->
                        [acc EXCEPT !.x = 0, !.prevChar = curChar,
                                    !.maxWidth = IF x > acc.maxWidth THEN x ELSE acc.maxWidth,
                                    !.widths = Append(acc.widths, x)]
                  [] OTHER ->
                        [acc EXCEPT !.x = x + getGlyph(t.m_font, curChar, t.m_characterSize,
                                                       isBoldOf(t), 0, tex).advance
                                            + sp.letterSpacing,
                                    !.prevChar = curChar]
        IN  CHOOSE r \in {LineWidthsLoop(t, tex, sp, i + 1, n) : n \in {next}} : TRUE

\* the widths without the push of line 619
LineWidthsNoLastLine(t, tex) ==
    LET acc == LineWidthsLoop(t, tex, getSpacing(t, tex), 1,
                              [x |-> 0, prevChar |-> NoChar, maxWidth |-> 0, widths |-> << >>])
    IN  [widths |-> acc.widths, maxWidth |-> acc.maxWidth]

\* the widths of the lines and the maxWidth the code has when the loop ends
\* (line 619 pushes the last line's width without comparing it to maxWidth)
LineWidths(t, tex) ==
    LET acc == LineWidthsLoop(t, tex, getSpacing(t, tex), 1,
                              [x |-> 0, prevChar |-> NoChar, maxWidth |-> 0, widths |-> << >>])
    IN  [widths |-> Append(acc.widths, acc.x), maxWidth |-> acc.maxWidth]

\* the conversion with Left handled as Right
AlignOffsetNoLeft(alignment, maxWidth, width) ==
    Round(CASE alignment = "Center" -> (maxWidth - width) \div 2
            [] OTHER                -> maxWidth - width)

\* the second loop (lines 622-637): convert widths into offsets
AlignOffset(alignment, maxWidth, width) ==
    Round(CASE alignment = "Right"  -> maxWidth - width
            [] alignment = "Center" -> (maxWidth - width) \div 2
            [] OTHER                -> 0)

updateLineOffsets(t, tex) ==
    CHOOSE offsets \in
        {[i \in 1..Len(lw.widths) |-> AlignOffset(t.m_lineAlignment, lw.maxWidth, lw.widths[i])] :
            lw \in {LineWidths(t, tex)}} : TRUE

(***************************************************************************)
(* Text::findCharacterPos                                                  *)
(***************************************************************************)
\* Transformable::getTransform().transformPoint: a translation by m_position
transformPoint(t, p) == <<p[1] + t.m_position[1], p[2] + t.m_position[2]>>

\* the loop of lines 320-345: pos = [x, y, prevChar]; sp is the spacing of
\* line 315
RECURSIVE PositionLoop(_, _, _, _, _, _)
PositionLoop(t, tex, sp, i, index, pos) ==
    IF i > index THEN pos
    ELSE
        LET curChar == t.m_string[i]
            x       == pos.x + getKerning(t.m_font, pos.prevChar, curChar, t.m_characterSize, isBoldOf(t))
            next    ==
                CASE curChar = Space   -> [x |-> x + sp.whitespaceWidth, y |-> pos.y, prevChar |-> curChar]
                  [] curChar = Tab     -> [x |-> x + sp.whitespaceWidth * 4, y |-> pos.y, prevChar |-> curChar]
                  [] curChar = Newline -> [x |-> 0, y |-> pos.y + sp.lineSpacing, prevChar |-> curChar]
                  [] OTHER             ->
                        [x |-> x + getGlyph(t.m_font, curChar, t.m_characterSize, isBoldOf(t), 0, tex).advance
                               + sp.letterSpacing,
                         y |-> pos.y, prevChar |-> curChar]
        IN  CHOOSE r \in {PositionLoop(t, tex, sp, i + 1, index, n) : n \in {next}} : TRUE

\* the adjustment clamping to the last character instead of the length
ClampIndexToLast(t, index) == IF index > Len(t.m_string) THEN Len(t.m_string) - 1 ELSE index

\* Adjust the index if it's out of range (lines 307-308)
ClampIndex(t, index) == IF index > Len(t.m_string) THEN Len(t.m_string) ELSE index

\* lines 313-345: the local position, before the transform; t.m_lineOffsets
\* is up to date
LocalCharacterPos(t, tex, index) ==
    LET pos == PositionLoop(t, tex, getSpacing(t, tex), 1, ClampIndex(t, index),
                            [x |-> t.m_lineOffsets[1], y |-> 0, prevChar |-> NoChar])
    IN  <<pos.x, pos.y>>

\* the whole function: the object after the call (updateLineOffsets writes
\* the mutable m_lineOffsets) and the point returned
findCharacterPos(t, tex, index) ==
    CHOOSE r \in
        {[text |-> t1, result |-> transformPoint(t1, LocalCharacterPos(t1, tex, index))] :
            t1 \in {[t EXCEPT !.m_lineOffsets = updateLineOffsets(t, tex)]}} : TRUE

(***************************************************************************)
(* Text::ensureGeometryUpdate                                              *)
(***************************************************************************)
\* the style-derived values of lines 414-427
isUnderlinedOf(t) == HasStyle(t.m_style, Underlined)

isStrikeThroughOf(t) == HasStyle(t.m_style, StrikeThrough)

italicShearOf(t) == IF HasStyle(t.m_style, Italic) THEN ItalicShearValue ELSE 0

strikeThroughOffsetOf(t, tex) ==
    LET b == getGlyph(t.m_font, LetterX, t.m_characterSize, isBoldOf(t), 0, tex).bounds
    IN  b.top + b.height \div 2

\* the decoration lines of lines 450-473 and 548-564, added to the fill and,
\* with an outline, to the outline buffer of acc
AddDecoration(t, acc, x, offset) ==
    LET thickness == getUnderlineThickness(t.m_font, t.m_characterSize)
    IN  [acc EXCEPT
           !.vertices = addLine(@, acc.horizontalOffset, x, acc.y, t.m_fillColor, offset, thickness, 0),
           !.outlineVertices =
               IF t.m_outlineThickness # 0
               THEN addLine(@, acc.horizontalOffset, x, acc.y, t.m_outlineColor, offset, thickness,
                            t.m_outlineThickness)
               ELSE @]

\* the read m_lineOffsets[line] of lines 428 and 495 (std::vector::operator[],
\* which checks nothing).  An index past the end is undefined behaviour; the
\* rebuild never makes such a read (C12_ReadsInRange), so the value given to
\* it here is never used.
LineOffsetAt(offsets, line) == IF line < Len(offsets) THEN offsets[line + 1] ELSE 0

DecorateLine(t, tex, acc, x, underline, strike) ==
    LET a1 == IF underline
              THEN AddDecoration(t, acc, x, getUnderlinePosition(t.m_font, t.m_characterSize))
              ELSE acc
    IN  IF strike THEN AddDecoration(t, a1, x, strikeThroughOffsetOf(t, tex)) ELSE a1

\* lines 477-506: a space, a tab or a newline; x is the cursor after kerning
WhitespaceStep(t, sp, a1, x, curChar) ==
    LET line == IF curChar = Newline THEN a1.line + 1 ELSE a1.line
        hoff == IF curChar = Newline THEN LineOffsetAt(t.m_lineOffsets, line) ELSE a1.horizontalOffset
        nx   == CASE curChar = Space -> x + sp.whitespaceWidth
                  [] curChar = Tab   -> x + sp.whitespaceWidth * 4
                  [] OTHER           -> hoff
        ny   == IF curChar = Newline THEN a1.y + sp.lineSpacing ELSE a1.y
    IN  [a1 EXCEPT !.x = nx, !.y = ny, !.prevChar = curChar,
                   !.line = line, !.horizontalOffset = hoff,
                   !.minX = Min(a1.minX, x), !.minY = Min(a1.minY, a1.y),
                   !.maxX = Max(a1.maxX, nx), !.maxY = Max(a1.maxY, ny),
                   !.reads = IF curChar = Newline THEN Append(@, line) ELSE @]

\* lines 508-535: any other code point gets a quad; x is the cursor after kerning
GlyphStep(t, tex, sp, a1, x, curChar) ==
    LET shear  == italicShearOf(t)
        oglyph == getGlyph(t.m_font, curChar, t.m_characterSize, isBoldOf(t),
                           t.m_outlineThickness, tex)
        glyph  == getGlyph(t.m_font, curChar, t.m_characterSize, isBoldOf(t), 0, tex)
        left   == glyph.bounds.left
        top    == glyph.bounds.top
        right  == glyph.bounds.left + glyph.bounds.width
        bottom == glyph.bounds.top + glyph.bounds.height
    IN  [a1 EXCEPT
           !.outlineVertices =
               IF t.m_outlineThickness # 0
               THEN addGlyphQuad(@, <<x, a1.y>>, t.m_outlineColor, oglyph, shear)
               ELSE @,
           !.vertices = addGlyphQuad(@, <<x, a1.y>>, t.m_fillColor, glyph, shear),
           !.minX = Min(a1.minX, x + left - FMul(shear, bottom)),
           !.maxX = Max(a1.maxX, x + right - FMul(shear, top)),
           !.minY = Min(a1.minY, a1.y + top),
           !.maxY = Max(a1.maxY, a1.y + bottom),
           !.prevChar = curChar,
           !.x = x + glyph.advance + sp.letterSpacing]

\* One iteration of the loop of lines 439-536.  acc holds the locals x, y,
\* minX, minY, maxX, maxY, prevChar, line, horizontalOffset and the two vertex
\* arrays; cursor records (x, y) at the top of every iteration and reads the
\* indexes at which m_lineOffsets is read (neither is state of the code).
GeometryStep(t, tex, sp, acc0, i) ==
    LET acc     == [acc0 EXCEPT !.cursor = Append(@, <<acc0.x, acc0.y>>)]
        curChar == t.m_string[i]
        x       == acc0.x + getKerning(t.m_font, acc0.prevChar, curChar, t.m_characterSize, isBoldOf(t))
        atBreak == curChar = Newline /\ acc0.prevChar # Newline
    IN  IF curChar = CarriageReturn THEN acc
        ELSE CHOOSE r \in
                {IF curChar = Space \/ curChar = Newline \/ curChar = Tab
                 THEN WhitespaceStep(t, sp, a1, x1, curChar)
                 ELSE GlyphStep(t, tex, sp, a1, x1, curChar) :
                    a1 \in {DecorateLine(t, tex, acc, x, isUnderlinedOf(t) /\ atBreak,
                                         isStrikeThroughOf(t) /\ atBreak)},
                    x1 \in {x}} : TRUE

RECURSIVE GeometryLoop(_, _, _, _, _)
GeometryLoop(t, tex, sp, acc, i) ==
    IF i > Len(t.m_string) THEN acc
    ELSE CHOOSE r \in {GeometryLoop(t, tex, sp, n, i + 1) :
                          n \in {GeometryStep(t, tex, sp, acc, i)}} : TRUE

\* lines 428-438: the locals before the loop (t.m_lineOffsets is up to date)
GeometryStart(t) ==
    [x |-> LineOffsetAt(t.m_lineOffsets, 0), y |-> Px(t.m_characterSize),
     minX |-> Px(t.m_characterSize), minY |-> Px(t.m_characterSize),
     maxX |-> 0, maxY |-> 0,
     prevChar |-> NoChar, line |-> 0, horizontalOffset |-> LineOffsetAt(t.m_lineOffsets, 0),
     vertices |-> t.m_vertices, outlineVertices |-> t.m_outlineVertices,
     cursor |-> << >>, reads |-> <<0>>]

\* lines 538-546: If we're using outline, update the current bounds
ApplyOutlineBounds(t, acc) ==
    IF t.m_outlineThickness # 0
    THEN LET outline == Abs(Ceil(t.m_outlineThickness))
         IN  [acc EXCEPT !.minX = @ - outline, !.maxX = @ + outline,
                         !.minY = @ - outline, !.maxY = @ + outline]
    ELSE acc

\* lines 548-564: the closing decoration of the last line
CloseDecoration(t, tex, acc) ==
    DecorateLine(t, tex, acc, acc.x, isUnderlinedOf(t) /\ acc.x > 0, isStrikeThroughOf(t) /\ acc.x > 0)

\* lines 413-564 for a non-empty string whose m_lineOffsets is up to date:
\* the locals when the function reaches line 566
BuildGeometry(t, tex) ==
    CHOOSE fin \in
        {[CloseDecoration(t, tex, ApplyOutlineBounds(t, acc)) EXCEPT
             !.cursor = Append(@, <<acc.x, acc.y>>)] :
            acc \in {GeometryLoop(t, tex, sp, start, 1) :
                        sp \in {getSpacing(t, tex)}, start \in {GeometryStart(t)}}} : TRUE

\* the test of line 392 without the texture id
NeedsRebuildFlagOnly(t, tex) == t.m_geometryNeedUpdate

\* line 392: Do nothing, if geometry has not changed and the font texture has not changed
NeedsRebuild(t, tex) == t.m_geometryNeedUpdate \/ tex # t.m_fontTextureId

\* ClearGeometry leaving the outline array as it is
ClearGeometryKeepsOutline(t, tex) ==
    [t EXCEPT !.m_fontTextureId = tex,
              !.m_geometryNeedUpdate = FALSE,
              !.m_vertices = << >>,
              !.m_bounds = ZeroRect]

\* lines 395-404: save the texture id, mark geometry as updated, clear the
\* previous geometry
ClearGeometry(t, tex) ==
    [t EXCEPT !.m_fontTextureId = tex,
              !.m_geometryNeedUpdate = FALSE,
              !.m_vertices = << >>,
              !.m_outlineVertices = << >>,
              !.m_bounds = ZeroRect]

\* lines 566-570: Update the bounding rectangle (g holds the locals)
StoreGeometry(t, g) ==
    [t EXCEPT !.m_vertices = g.vertices,
              !.m_outlineVertices = g.outlineVertices,
              !.m_bounds = [left |-> g.minX, top |-> g.minY,
                            width |-> g.maxX - g.minX, height |-> g.maxY - g.minY]]

\* lines 410-570, for a non-empty string: update the line offsets, build,
\* store
RebuildText(cleared, tex) ==
    CHOOSE r \in
        {CHOOSE u \in {StoreGeometry(t1, g) : g \in {BuildGeometry(t1, tex)}} : TRUE :
            t1 \in {[cleared EXCEPT !.m_lineOffsets = updateLineOffsets(cleared, tex)]}} : TRUE

\* Rebuild with the test for the empty string ahead of the clearing
RebuildEmptyCheckFirst(t, tex) ==
    IF t.m_string = << >>
    THEN [t EXCEPT !.m_fontTextureId = tex, !.m_geometryNeedUpdate = FALSE]
    ELSE RebuildText(ClearGeometry(t, tex), tex)

\* lines 395-570: the rebuild itself
Rebuild(t, tex) ==
    CHOOSE r \in
        {IF cleared.m_string = << >> THEN cleared ELSE RebuildText(cleared, tex) :
            cleared \in {ClearGeometry(t, tex)}} : TRUE

\* the whole function: the object after the call, and whether the call went
\* past the return of line 393 (rebuilt is no state of the code)
ensureGeometryUpdate(t, tex) ==
    IF NeedsRebuild(t, tex)
    THEN [text |-> Rebuild(t, tex), rebuilt |-> TRUE]
    ELSE [text |-> t, rebuilt |-> FALSE]

(***************************************************************************)
(* State                                                                   *)
(***************************************************************************)
VARIABLES
    text,         \* the sf::Text object: a record of its members
    textures,     \* textures[font][size]: m_cacheId of the font's atlas page
    nextCacheId,  \* the next unique texture cache id
    call,         \* the last public call: its name, argument and return value
    opsLeft       \* setter calls and repacks left in this run

vars == <<text, textures, nextCacheId, call, opsLeft>>

\* m_font->getTexture(m_characterSize).m_cacheId
currentTexture(t) == textures[t.m_font][t.m_characterSize]

\* the cache ids of the pages when the fonts are loaded: unique, never 0
FirstCacheId(font, size) == 2 * font + (IF size = 20 THEN 0 ELSE 1) - 1

FirstFreeCacheId == 5

(***************************************************************************)
(* Inputs                                                                  *)
(***************************************************************************)
RECURSIVE SeqsUpTo(_, _)
SeqsUpTo(alphabet, n) ==
    IF n = 0 THEN {<< >>}
    ELSE LET shorter == SeqsUpTo(alphabet, n - 1)
         IN  shorter \cup {Append(s, c) : s \in shorter, c \in alphabet}

\* the strings of Spec: empty, one glyph, a line ended by a newline, two lines
Strings == {<< >>, <<LetterA>>, <<LetterA, Newline>>, <<LetterA, Newline, LetterA>>}

PositionStrings == SeqsUpTo({LetterA, Newline}, MaxPositionLen)

LayoutStrings == SeqsUpTo({LetterA, Space, Tab, Newline, CarriageReturn}, MaxLayoutLen)

Styles == {Regular, Bold + Italic, Underlined + StrikeThrough}

LetterSpacings == {1000, 2000}

LineSpacings == {1000, 1500}

Thicknesses == {0, 1500}

Positions == {<<0, 0>>, <<Px(3), Px(4)>>}

(***************************************************************************)
(* Construction: Text::Text(font, string, characterSize), lines 103-108;   *)
(* the other members take their default member initialisers.               *)
(***************************************************************************)
NewText(font, string, characterSize) ==
    [m_string              |-> string,
     m_font                |-> font,
     m_characterSize       |-> characterSize,
     m_letterSpacingFactor |-> 1000,
     m_lineSpacingFactor   |-> 1000,
     m_style               |-> Regular,
     m_fillColor           |-> "White",
     m_outlineColor        |-> "Black",
     m_outlineThickness    |-> 0,
     m_lineAlignment       |-> "Left",
     m_vertices            |-> << >>,
     m_outlineVertices     |-> << >>,
     m_bounds              |-> ZeroRect,
     m_geometryNeedUpdate  |-> FALSE,
     m_fontTextureId       |-> 0,
     m_lineOffsets         |-> << >>,
     m_position            |-> <<0, 0>>]

\* a call without argument, or that returns nothing
Void == [void |-> TRUE]

\* the call just made: its name, its argument and its result as records named
\* after the parameter and the kind of result, whether it rebuilt the
\* geometry, and the sizes of the buffers before it
Called(op, arg, rebuilt, result) ==
    call' = [op |-> op, arg |-> arg, rebuilt |-> rebuilt, result |-> result,
             outlineBefore |-> Len(text.m_outlineVertices),
             verticesBefore |-> Len(text.m_vertices)]

InitWith(fonts, strings, ops) ==
    /\ \E font \in fonts, string \in strings :
          text = NewText(font, string, 20)
    /\ textures = [f \in Fonts |-> [s \in Sizes |-> FirstCacheId(f, s)]]
    /\ nextCacheId = FirstFreeCacheId
    /\ call = [op |-> "Text", arg |-> Void, rebuilt |-> FALSE, result |-> Void,
               outlineBefore |-> 0, verticesBefore |-> 0]
    /\ opsLeft = ops

Init == InitWith(Fonts, Strings, MaxOps)

(***************************************************************************)
(* The setters, lines 112-230, as functions of the object                  *)
(***************************************************************************)
setString(t, string) ==
    IF t.m_string # string
    THEN [t EXCEPT !.m_string = string, !.m_geometryNeedUpdate = TRUE]
    ELSE t

setFont(t, font) ==
    IF t.m_font # font
    THEN [t EXCEPT !.m_font = font, !.m_geometryNeedUpdate = TRUE]
    ELSE t

setCharacterSize(t, size) ==
    IF t.m_characterSize # size
    THEN [t EXCEPT !.m_characterSize = size, !.m_geometryNeedUpdate = TRUE]
    ELSE t

setLetterSpacing(t, spacingFactor) ==
    IF t.m_letterSpacingFactor # spacingFactor
    THEN [t EXCEPT !.m_letterSpacingFactor = spacingFactor, !.m_geometryNeedUpdate = TRUE]
    ELSE t

setLineSpacing(t, spacingFactor) ==
    IF t.m_lineSpacingFactor # spacingFactor
    THEN [t EXCEPT !.m_lineSpacingFactor = spacingFactor, !.m_geometryNeedUpdate = TRUE]
    ELSE t

\* setStyle without the dirty mark
setStyleKeepsCache(t, style) == [t EXCEPT !.m_style = style]

setStyle(t, style) ==
    IF t.m_style # style
    THEN [t EXCEPT !.m_style = style, !.m_geometryNeedUpdate = TRUE]
    ELSE t

\* Change vertex colors directly, no need to update whole geometry
Repaint(vertices, color) == [i \in 1..Len(vertices) |-> [vertices[i] EXCEPT !.color = color]]

\* setFillColor marking the geometry dirty instead of repainting
setFillColorMarksDirty(t, color) ==
    IF color # t.m_fillColor
    THEN [t EXCEPT !.m_fillColor = color, !.m_geometryNeedUpdate = TRUE]
    ELSE t

setFillColor(t, color) ==
    IF color # t.m_fillColor
    THEN [t EXCEPT !.m_fillColor = color,
                   !.m_vertices = IF ~t.m_geometryNeedUpdate THEN Repaint(@, color) ELSE @]
    ELSE t

setOutlineColor(t, color) ==
    IF color # t.m_outlineColor
    THEN [t EXCEPT !.m_outlineColor = color,
                   !.m_outlineVertices = IF ~t.m_geometryNeedUpdate THEN Repaint(@, color) ELSE @]
    ELSE t

setOutlineThickness(t, thickness) ==
    IF thickness # t.m_outlineThickness
    THEN [t EXCEPT !.m_outlineThickness = thickness, !.m_geometryNeedUpdate = TRUE]
    ELSE t

setLineAlignment(t, lineAlignment) ==
    [t EXCEPT !.m_geometryNeedUpdate = IF t.m_lineAlignment # lineAlignment THEN TRUE ELSE @,
              !.m_lineAlignment = lineAlignment]

(***************************************************************************)
(* Actions: one per public call, and the font's atlas repack               *)
(***************************************************************************)
Setter(op, arg, t) ==
    /\ opsLeft > 0
    /\ opsLeft' = opsLeft - 1
    /\ text' = t
    /\ Called(op, arg, FALSE, Void)
    /\ UNCHANGED <<textures, nextCacheId>>

SetString(string) == Setter("setString", [string |-> string], setString(text, string))

SetFont(font) == Setter("setFont", [font |-> font], setFont(text, font))

SetCharacterSize(size) == Setter("setCharacterSize", [size |-> size], setCharacterSize(text, size))

SetLetterSpacing(factor) == Setter("setLetterSpacing", [factor |-> factor], setLetterSpacing(text, factor))

SetLineSpacing(factor) == Setter("setLineSpacing", [factor |-> factor], setLineSpacing(text, factor))

SetStyle(style) == Setter("setStyle", [style |-> style], setStyle(text, style))

SetFillColor(color) == Setter("setFillColor", [color |-> color], setFillColor(text, color))

SetOutlineColor(color) == Setter("setOutlineColor", [color |-> color], setOutlineColor(text, color))

SetOutlineThickness(thickness) ==
    Setter("setOutlineThickness", [thickness |-> thickness], setOutlineThickness(text, thickness))

SetLineAlignment(alignment) ==
    Setter("setLineAlignment", [alignment |-> alignment], setLineAlignment(text, alignment))

\* Transformable::setPosition
SetPosition(position) == Setter("setPosition", [position |-> position], [text EXCEPT !.m_position = position])

\* Text::findCharacterPos, lines 304-351
FindCharacterPos(index) ==
    \E r \in {findCharacterPos(text, currentTexture(text), index)} :
        /\ text' = r.text
        /\ Called("findCharacterPos", [index |-> index], FALSE, [point |-> r.result])
        /\ UNCHANGED <<textures, nextCacheId, opsLeft>>

\* Text::getLocalBounds, lines 355-360
GetLocalBounds ==
    \E r \in {ensureGeometryUpdate(text, currentTexture(text))} :
        /\ text' = r.text
        /\ Called("getLocalBounds", Void, r.rebuilt, r.text.m_bounds)
        /\ UNCHANGED <<textures, nextCacheId, opsLeft>>

\* Text::draw, lines 371-385; the result is what the render target receives
Draw ==
    \E r \in {ensureGeometryUpdate(text, currentTexture(text))} :
        /\ text' = r.text
        /\ Called("draw", Void, r.rebuilt,
                  [texture  |-> currentTexture(text),
                   outline  |-> IF text.m_outlineThickness # 0
                                THEN <<r.text.m_outlineVertices>> ELSE << >>,
                   vertices |-> r.text.m_vertices])
        /\ UNCHANGED <<textures, nextCacheId, opsLeft>>

\* the font repacks the atlas page of one character size: the page's texture
\* gets a new cache id
AtlasRepack(font, size) ==
    /\ opsLeft > 0
    /\ nextCacheId < FirstFreeCacheId + MaxRepacks
    /\ textures' = [textures EXCEPT ![font][size] = nextCacheId]
    /\ nextCacheId' = nextCacheId + 1
    /\ Called("repack", [font |-> font, size |-> size], FALSE, Void)
    /\ opsLeft' = opsLeft - 1
    /\ UNCHANGED text

\* A setter called with the value the member already has returns at its first
\* test and changes nothing (a stuttering step): Next draws the other values.
Next ==
    \/ \E string \in Strings \ {text.m_string} : SetString(string)
    \/ \E font \in Fonts \ {text.m_font} : SetFont(font)
    \/ \E size \in Sizes \ {text.m_characterSize} : SetCharacterSize(size)
    \/ \E factor \in LetterSpacings \ {text.m_letterSpacingFactor} : SetLetterSpacing(factor)
    \/ \E factor \in LineSpacings \ {text.m_lineSpacingFactor} : SetLineSpacing(factor)
    \/ \E style \in Styles \ {text.m_style} : SetStyle(style)
    \/ \E color \in Colors \ {text.m_fillColor} : SetFillColor(color)
    \/ \E color \in Colors \ {text.m_outlineColor} : SetOutlineColor(color)
    \/ \E thickness \in Thicknesses \ {text.m_outlineThickness} : SetOutlineThickness(thickness)
    \/ \E alignment \in Alignments \ {text.m_lineAlignment} : SetLineAlignment(alignment)
    \/ GetLocalBounds
    \/ Draw
    \/ \E font \in Fonts, size \in Sizes : AtlasRepack(font, size)

Spec == Init /\ [][Next]_vars

(***************************************************************************)
(* The layout functions on their own: a text of any content, aligned,      *)
(* styled and placed, then queried                                         *)
(***************************************************************************)
LayoutInit == InitWith({2}, LayoutStrings, MaxLayoutOps)

LayoutNext ==
    \/ \E alignment \in Alignments \ {text.m_lineAlignment} : SetLineAlignment(alignment)
    \/ \E index \in 0..(MaxLayoutLen + 1) : FindCharacterPos(index)
    \/ GetLocalBounds

LayoutSpec == LayoutInit /\ [][LayoutNext]_vars

(***************************************************************************)
(* The position query on a placed text: aligned, moved, then queried at    *)
(* indexes in and out of range                                             *)
(***************************************************************************)
PositionInit == InitWith(Fonts, PositionStrings, MaxPositionOps)

PositionNext ==
    \/ \E alignment \in Alignments \ {text.m_lineAlignment} : SetLineAlignment(alignment)
    \/ \E position \in Positions \ {text.m_position} : SetPosition(position)
    \/ \E index \in 0..(MaxPositionLen + 2) : FindCharacterPos(index)

PositionSpec == PositionInit /\ [][PositionNext]_vars

(***************************************************************************)
(* Decorations: strings of glyphs, newlines and carriage returns in both   *)
(* fonts, with the styles and the alignments set before the rebuild        *)
(***************************************************************************)
DecorationStrings == SeqsUpTo({LetterA, Newline, CarriageReturn}, MaxDecorationLen)

DecorationStyles == {Regular, Underlined, Underlined + StrikeThrough}

DecorationInit == InitWith(Fonts, DecorationStrings, MaxDecorationOps)

DecorationNext ==
    \/ \E style \in DecorationStyles \ {text.m_style} : SetStyle(style)
    \/ \E alignment \in Alignments \ {text.m_lineAlignment} : SetLineAlignment(alignment)
    \/ GetLocalBounds

DecorationSpec == DecorationInit /\ [][DecorationNext]_vars

(***************************************************************************)
(* Properties                                                              *)
(***************************************************************************)
\* the cache is valid: the dirty flag is false and the cached texture id is
\* the current one for the active character size
CacheValid == ~text.m_geometryNeedUpdate /\ text.m_fontTextureId = currentTexture(text)

\* the last call was a geometry access
Observed == call.op \in {"getLocalBounds", "draw"}

\* the object with the style of t and nothing cached
BlankCache(t) ==
    [t EXCEPT !.m_vertices = << >>, !.m_outlineVertices = << >>, !.m_bounds = ZeroRect,
              !.m_lineOffsets = << >>, !.m_geometryNeedUpdate = TRUE, !.m_fontTextureId = 0]

\* what a rebuild from scratch of the style of t against the current texture gives
FromScratch(t) == Rebuild(BlankCache(t), currentTexture(t))

\* C1: whatever setters and atlas repacks came before, the fill buffer, the
\* outline buffer and the bounds seen through getLocalBounds or draw (and held
\* by any valid cache) are those of a rebuild from scratch of the current
\* style against the current font texture: no stale geometry is observed.
C1_NoStaleGeometry ==
    \A fresh \in {FromScratch(text)} :
        /\ (CacheValid \/ Observed) =>
              /\ CacheValid
              /\ text.m_vertices = fresh.m_vertices
              /\ text.m_outlineVertices = fresh.m_outlineVertices
              /\ text.m_bounds = fresh.m_bounds
        /\ call.op = "getLocalBounds" => call.result = fresh.m_bounds
        /\ call.op = "draw" =>
              /\ call.result.texture = currentTexture(text)
              /\ call.result.vertices = fresh.m_vertices
              /\ call.result.outline = IF text.m_outlineThickness # 0
                                       THEN <<fresh.m_outlineVertices>> ELSE << >>

\* a draw that rebuilt a cache built before the atlas page was repacked
C1_Witness ==
    /\ call.op = "draw" /\ call.rebuilt
    /\ call.verticesBefore > 0
    /\ text.m_fontTextureId >= FirstFreeCacheId
    /\ Len(text.m_vertices) > 0

\* C2: a getLocalBounds call rebuilds exactly when the dirty flag is set or
\* the cached texture id differs from the font's current one; it leaves the
\* flag false and the cached id current; and a second getLocalBounds right
\* after a first one returns the same buffers and bounds without rebuilding.
C2_Step ==
    call'.op = "getLocalBounds" =>
        /\ call'.rebuilt <=> (text.m_geometryNeedUpdate
                              \/ text.m_fontTextureId # textures[text.m_font][text.m_characterSize])
        /\ ~text'.m_geometryNeedUpdate
        /\ text'.m_fontTextureId = textures'[text'.m_font][text'.m_characterSize]
        /\ ~call'.rebuilt => text' = text
        /\ call.op = "getLocalBounds" =>
              /\ ~call'.rebuilt
              /\ text'.m_vertices = text.m_vertices
              /\ text'.m_outlineVertices = text.m_outlineVertices
              /\ text'.m_bounds = text.m_bounds
              /\ call'.result = call.result

C2_RebuildExactlyWhenStale == [][C2_Step]_vars

\* a getLocalBounds that found a built cache valid
C2_Witness == call.op = "getLocalBounds" /\ ~call.rebuilt /\ Len(text.m_vertices) > 0

\* what a colour setter does to its buffer when it repaints (repaint TRUE)
\* and when it does not: before and after are the object around the call
ColorSetterEffect(repaint, before, after, buffer, otherBuffer, color) ==
    /\ after[otherBuffer] = before[otherBuffer]
    /\ after.m_bounds = before.m_bounds
    /\ after.m_geometryNeedUpdate = before.m_geometryNeedUpdate
    /\ IF repaint
       THEN /\ Len(after[buffer]) = Len(before[buffer])
            /\ \A i \in 1..Len(before[buffer]) :
                  after[buffer][i] = [before[buffer][i] EXCEPT !.color = color]
       ELSE after[buffer] = before[buffer]

ColorSetterStep(repaint) ==
    /\ (call'.op = "setFillColor" /\ text'.m_fillColor # text.m_fillColor) =>
          ColorSetterEffect(repaint, text, text', "m_vertices", "m_outlineVertices", call'.arg.color)
    /\ (call'.op = "setOutlineColor" /\ text'.m_outlineColor # text.m_outlineColor) =>
          ColorSetterEffect(repaint, text, text', "m_outlineVertices", "m_vertices", call'.arg.color)

\* C3 as stated: a colour setter given a new colour repaints every vertex of
\* its buffer when the cache is valid, and changes no vertex when the cache is
\* stale (dirty, or built against another texture id).
C3_AsStated == [][ColorSetterStep(CacheValid)]_vars

\* C3, amended: a colour setter given a new colour repaints every vertex of its
\* buffer (positions, texture coordinates, order, count, the other buffer, the
\* bounds and the dirty flag unchanged) when the dirty flag is false, also when
\* the cached texture id is out of date; it changes no vertex when the flag is set.
C3_RepaintsUnlessDirty == [][ColorSetterStep(~text.m_geometryNeedUpdate)]_vars

\* setFillColor has repainted a built, valid cache
C3_Witness ==
    /\ call.op = "setFillColor" /\ call.arg.color # "White"
    /\ CacheValid
    /\ Len(text.m_vertices) > 0
    /\ \A i \in 1..Len(text.m_vertices) : text.m_vertices[i].color = call.arg.color

\* C5: a geometry access of an empty string returns the zero rectangle and
\* leaves both vertex buffers empty, whatever the style and the cache before.
C5_EmptyString ==
    (Observed /\ text.m_string = << >>) =>
        /\ text.m_vertices = << >>
        /\ text.m_outlineVertices = << >>
        /\ text.m_bounds = ZeroRect
        /\ call.op = "getLocalBounds" => call.result = ZeroRect
        /\ call.op = "draw" => call.result.vertices = << >> /\ call.result.outline \in {<< >>, << << >> >>}

\* getLocalBounds on an empty string whose cache held outlined geometry
C5_Witness ==
    /\ call.op = "getLocalBounds" /\ text.m_string = << >>
    /\ call.verticesBefore > 0 /\ call.outlineBefore > 0
    /\ text.m_outlineThickness # 0

\* the scenario of C6: "A" in the test font at size 20, regular style, no
\* outline, left alignment, after getLocalBounds
ScenarioA ==
    /\ call.op = "getLocalBounds"
    /\ text.m_string = <<LetterA>> /\ text.m_font = 1 /\ text.m_characterSize = 20
    /\ text.m_style = Regular /\ text.m_outlineThickness = 0
    /\ text.m_lineAlignment = "Left"

\* one quad, two triangles, over the glyph box (0,0,8,10) at the pen position
\* (0,20), padded by one pixel on each side
OnePaddedQuad ==
    /\ Len(text.m_vertices) = 6
    /\ [i \in 1..6 |-> text.m_vertices[i].position] =
          << <<-Px(1), Px(19)>>, <<Px(9), Px(19)>>, <<-Px(1), Px(31)>>,
             <<-Px(1), Px(31)>>, <<Px(9), Px(19)>>, <<Px(9), Px(31)>> >>
    /\ text.m_outlineVertices = << >>

\* C6 as stated: one padded quad, and getLocalBounds returns (-1,-1,10,12).
C6_AsStated ==
    ScenarioA => /\ OnePaddedQuad
                 /\ call.result = [left |-> -Px(1), top |-> -Px(1), width |-> Px(10), height |-> Px(12)]

\* C6, amended: one padded quad, and getLocalBounds returns (0,20,8,10): the
\* unpadded glyph box at the pen position, whose y is the character size.
C6_GlyphBoxAtBaseline ==
    ScenarioA => /\ OnePaddedQuad
                 /\ call.result = [left |-> 0, top |-> Px(20), width |-> Px(8), height |-> Px(10)]

C6_Witness == ScenarioA /\ call.rebuilt

\* C7: after a geometry access with outline thickness 0 the outline buffer is
\* empty and the bounds are those of the same text built without outline (also
\* when the thickness was nonzero before); with a nonzero thickness the
\* outline buffer holds one quad for every quad of the fill buffer.
C7_Outline ==
    Observed =>
        IF text.m_outlineThickness = 0
        THEN /\ text.m_outlineVertices = << >>
             /\ text.m_bounds = FromScratch([NewText(text.m_font, text.m_string, text.m_characterSize)
                                                EXCEPT !.m_style = text.m_style,
                                                       !.m_letterSpacingFactor = text.m_letterSpacingFactor,
                                                       !.m_lineSpacingFactor = text.m_lineSpacingFactor,
                                                       !.m_lineAlignment = text.m_lineAlignment]).m_bounds
        ELSE /\ Len(text.m_outlineVertices) = Len(text.m_vertices)
             /\ Len(text.m_vertices) % 6 = 0

\* a rebuild with thickness 0 of a text whose cache held outline quads
C7_Witness ==
    /\ call.op = "getLocalBounds" /\ call.rebuilt
    /\ text.m_outlineThickness = 0
    /\ call.outlineBefore > 0
    /\ Len(text.m_vertices) > 0

\* the cursor after the loop of findCharacterPos has walked the whole string
WholeWalk(t) ==
    LET pos == PositionLoop(t, currentTexture(t), getSpacing(t, currentTexture(t)), 1, Len(t.m_string),
                            [x |-> t.m_lineOffsets[1], y |-> 0, prevChar |-> NoChar])
    IN  <<pos.x, pos.y>>

OffsetsFresh ==
    \/ call.op = "findCharacterPos"
    \/ call.op = "getLocalBounds" /\ call.rebuilt /\ text.m_string # << >>

\* C8 as stated: for every index i <= length the local x of findCharacterPos(i)
\* is the x of the geometry builder's cursor just before it processes code
\* point i, and the local y is the builder's y minus characterSize.
C8_AsStated ==
    (call.op = "findCharacterPos" /\ text.m_string # << >> /\ call.arg.index <= Len(text.m_string)) =>
        \A g \in {BuildGeometry(text, currentTexture(text))} :
            call.result.point = transformPoint(text, <<g.cursor[call.arg.index + 1][1],
                                                 g.cursor[call.arg.index + 1][2] - Px(text.m_characterSize)>>)

\* the largest width of any line, the last one included
WidestLine(widths) == CHOOSE w \in {widths[i] : i \in 1..Len(widths)} :
                          \A i \in 1..Len(widths) : widths[i] <= w

\* C9 as stated: with center or right alignment every offset is
\* round((maxWidth - width[i]) * k), maxWidth being the largest width of any
\* line, the last included; no offset is negative; the widest line has offset 0.
C9_AsStated ==
    (OffsetsFresh /\ text.m_lineAlignment \in {"Center", "Right"}) =>
        \A w \in {LineWidths(text, currentTexture(text)).widths} :
            /\ Len(text.m_lineOffsets) = Len(w)
            /\ \A i \in 1..Len(w) :
                  /\ text.m_lineOffsets[i] =
                        Round(IF text.m_lineAlignment = "Right"
                              THEN WidestLine(w) - w[i]
                              ELSE (WidestLine(w) - w[i]) \div 2)
                  /\ text.m_lineOffsets[i] >= 0
                  /\ w[i] = WidestLine(w) => text.m_lineOffsets[i] = 0

NewlineCount(string) == Cardinality({i \in 1..Len(string) : string[i] = Newline})

\* C10: after every updateLineOffsets call the table has (number of newline
\* code points) + 1 entries, at least one even for the empty string, and with
\* left alignment every entry is 0.
C10_TableSize ==
    OffsetsFresh =>
        /\ Len(text.m_lineOffsets) = NewlineCount(text.m_string) + 1
        /\ Len(text.m_lineOffsets) >= 1
        /\ text.m_lineAlignment = "Left" =>
              \A i \in 1..Len(text.m_lineOffsets) : text.m_lineOffsets[i] = 0

\* a left-aligned text of three lines, not all of them empty
C10_Witness ==
    /\ call.op = "findCharacterPos"
    /\ text.m_lineAlignment = "Left"
    /\ Len(text.m_lineOffsets) = 3
    /\ Len(text.m_string) = 3

\* the rectangles addLine has put in a buffer: its vertices all carry the
\* texture coordinates (1, 1), which no glyph quad has
LineRectangles(vertices) ==
    Cardinality({i \in 1..Len(vertices) : vertices[i].texCoords = <<Px(1), Px(1)>>}) \div 6

\* the code point before string[i], carriage returns passed over (the
\* builder does not look at them), NoChar when there is none
PrecedingCodePoint(string, i) ==
    LET before == {j \in 1..(i - 1) : string[j] # CarriageReturn}
    IN  IF before = {} THEN NoChar
        ELSE string[CHOOSE j \in before : \A k \in before : k <= j]

\* the newlines that end a line: those not preceded by a newline
LineEnds(string) ==
    {i \in 1..Len(string) : string[i] = Newline /\ PrecedingCodePoint(string, i) # Newline}

\* the last line holds a code point that moves the cursor
LastLineNonEmpty(string) ==
    \E i \in 1..Len(string) :
        /\ string[i] \notin {Newline, CarriageReturn}
        /\ \A j \in (i + 1)..Len(string) : string[j] # Newline

\* C11 as stated: with underline set and strikethrough off, a rebuild emits
\* one underline rectangle at each newline whose preceding code point is not
\* a newline, and one closing rectangle exactly when the last line is
\* non-empty, for every alignment; a string ending in a newline gets no
\* rectangle for its empty trailing line.
C11_AsStated ==
    (call.op = "getLocalBounds" /\ isUnderlinedOf(text) /\ ~isStrikeThroughOf(text)) =>
        LineRectangles(text.m_vertices) =
            Cardinality(LineEnds(text.m_string))
            + (IF LastLineNonEmpty(text.m_string) THEN 1 ELSE 0)

\* the indexes at which the rebuild that has just run read m_lineOffsets, in
\* order: the builder run again on the string, the style and the table the
\* rebuild has left
RebuildReads ==
    BuildGeometry([text EXCEPT !.m_vertices = << >>, !.m_outlineVertices = << >>],
                  currentTexture(text)).reads

\* C12: during every geometry rebuild each read m_lineOffsets[line], the
\* first one of entry 0 and the one after each newline, uses an index
\* strictly smaller than the size of the table, for every string, style and
\* alignment, strings ending in a newline or holding carriage returns included.
C12_ReadsInRange ==
    (call.op = "getLocalBounds" /\ call.rebuilt /\ text.m_string # << >>) =>
        \A reads \in {RebuildReads} :
            /\ Len(reads) = NewlineCount(text.m_string) + 1
            /\ \A k \in 1..Len(reads) :
                  /\ reads[k] = k - 1
                  /\ reads[k] < Len(text.m_lineOffsets)

\* the rebuild of an underlined, aligned string that holds a carriage return
\* and ends in a newline: its last read is of the last entry of the table
C12_Witness ==
    /\ call.op = "getLocalBounds" /\ call.rebuilt
    /\ Len(text.m_string) = 3
    /\ text.m_string[3] = Newline
    /\ \E i \in 1..2 : text.m_string[i] = CarriageReturn
    /\ isUnderlinedOf(text)
    /\ text.m_lineAlignment # "Left"
    /\ RebuildReads[Len(RebuildReads)] = Len(text.m_lineOffsets) - 1

=============================================================================
